---- MODULE Spec2Model ----
(***************************************************************************)
(* The SO2 dashboards of kcm_dashboard: test3.py (interval-driven, with a  *)
(* rolling table of readings) and test2.py (button-driven, with a PDF      *)
(* report).  Both keep a module-level table df and a module-level dict     *)
(* sensor_limits["SO2"], read and written by Dash callbacks.               *)
(*                                                                         *)
(* df is modelled by its SO2 column (a sequence of integers, oldest row    *)
(* first); the Time column is never read by a callback's logic.            *)
(***************************************************************************)
EXTENDS Integers, Sequences, FiniteSets, TLC

VARIABLES
    app,            \* which program is running: "test2" or "test3"
    df,             \* the module-level table (its SO2 column)
    sensor_limits,  \* sensor_limits["SO2"]
    ret,            \* what the last finished callback returned (or raised)
    logging,        \* ghost: whether hist is being recorded
    hist,           \* ghost: every reading the table ever received, in order
    ai,             \* thread of run_ai_model (stepwise execution)
    ex,             \* thread of export_pdf (stepwise execution)
    threaded,       \* whether callbacks run in threads of their own
    lc,             \* thread of test3's update_live_chart (stepwise execution)
    so              \* thread of update_current_so2 (stepwise execution)

vars == <<app, df, sensor_limits, ret, logging, hist, ai, ex, threaded, lc, so>>

----------------------------------------------------------------------------
(* Sizes.  The table of both programs has 100 rows and the live chart      *)
(* keeps the last 100; the model scales that capacity down to N.           *)

N == 3              \* rows kept by .iloc[-100:], rows of the seed table
MaxAppends == 4     \* appends recorded in hist by a logged run (more than N)
MaxClicks == 1      \* largest n_clicks / n_intervals a callback is called with

Base == 500         \* 500 + ... in both seed tables and in the simulator
NoClicks == 0 - 1   \* Python's None as a click count (n_clicks before a click)

\* Samples of random.randint(-50, 50) (seed of test3) and of
\* random.randint(-100, 150) (a simulated reading of test3).
SeedNoise == {0 - 50, 50}
NewNoise == {1, 2}

\* Values a user can leave in the four NumericInput fields of the form.
LslInputs == {300, 900}
LclInputs == {400, 950}
UclInputs == {500, 501, 700}
UslInputs == {501, 800}

ClickArgs == {NoClicks} \cup (0 .. MaxClicks)
TickArgs == 0 .. MaxClicks

ThresholdSets ==
    [lsl : LslInputs, lcl : LclInputs, ucl : UclInputs, usl : UslInputs]

\* Threshold sets stored by settings updates that race with a running callback.
RacingSets ==
    { [lsl |-> 300, lcl |-> 400, ucl |-> 700, usl |-> 800],
      [lsl |-> 300, lcl |-> 400, ucl |-> 500, usl |-> 501],
      [lsl |-> 300, lcl |-> 400, ucl |-> 700, usl |-> 501] }

----------------------------------------------------------------------------
(* Python and pandas helpers, as the callbacks use them.                   *)

\* truth value of a click count: None and 0 are falsy
truthy(n) == n # NoClicks /\ n # 0

\* DataFrame.empty
empty(d) == Len(d) = 0

\* pd.concat([d, new_row], ignore_index=True) for a one-row new_row
concat(d, v) == d \o <<v>>

\* (mutant) .iloc[-(k + 1):]: one row too many is kept
iloc_tail_wide(d, k) ==
    LET start == IF Len(d) - (k + 1) > 0 THEN Len(d) - (k + 1) ELSE 0
    IN  [i \in 1 .. (Len(d) - start) |-> d[start + i]]

\* (mutant) .iloc[:-k]: the last k rows are dropped instead of kept
iloc_head(d, k) ==
    LET stop == IF Len(d) - k > 0 THEN Len(d) - k ELSE 0
    IN  [i \in 1 .. stop |-> d[i]]

\* d.iloc[-k:]: the last k rows, all of them when there are fewer than k
iloc_tail(d, k) ==
    LET start == IF Len(d) - k > 0 THEN Len(d) - k ELSE 0
    IN  [i \in 1 .. (Len(d) - start) |-> d[start + i]]

\* d["SO2"].iloc[-1] of a non-empty table
iloc_last(d) == d[Len(d)]

\* len(d[d["SO2"] > bound]): rows selected by the boolean mask, counted
RECURSIVE mask_count(_, _)
mask_count(d, bound) ==
    IF d = <<>> THEN 0
    ELSE (IF Head(d) > bound THEN 1 ELSE 0) + mask_count(Tail(d), bound)

RECURSIVE seq_sum(_)
seq_sum(d) == IF d = <<>> THEN 0 ELSE Head(d) + seq_sum(Tail(d))

seq_min(d) == CHOOSE m \in {d[i] : i \in DOMAIN d} : \A i \in DOMAIN d : m <= d[i]
seq_max(d) == CHOOSE m \in {d[i] : i \in DOMAIN d} : \A i \in DOMAIN d : m >= d[i]

\* d["SO2"].describe(): count, mean (as the exact fraction sum/count), min, max;
\* the statistics of an empty column are NaN
describe(d) ==
    IF empty(d)
    THEN [count |-> 0, mean |-> <<"nan">>, min |-> <<"nan">>, max |-> <<"nan">>]
    ELSE [count |-> Len(d), mean |-> <<seq_sum(d), Len(d)>>,
          min |-> <<seq_min(d)>>, max |-> <<seq_max(d)>>]

\* f"{latest:.1f} ppm" of an integer reading
fmt_ppm(v) == ToString(v) \o ".0 ppm"

----------------------------------------------------------------------------
(* Module-level initialisation.                                            *)

DefaultLimits == [lsl |-> 300, usl |-> 800, lcl |-> 400, ucl |-> 700]

\* test2: "SO2": [500 + i % 100 for i in range(100)]
seed_test2 == [i \in 1 .. N |-> Base + ((i - 1) % N)]

\* test3: "SO2": [500 + random.randint(-50, 50) for _ in range(100)]
seeds_test3 == [1 .. N -> {Base + r : r \in SeedNoise}]

Idle == [pc |-> "idle"]
NoReturn == [op |-> "none", clicked |-> FALSE, raised |-> FALSE, out |-> <<>>]

\* a finished call: the callback, whether its counter argument n was truthy,
\* and the value it returned or the exception it raised
Returned(op, n, out) ==
    [op |-> op, clicked |-> truthy(n), raised |-> FALSE, out |-> out]
Raised(op, n, exc) ==
    [op |-> op, clicked |-> truthy(n), raised |-> TRUE, out |-> <<exc>>]

----------------------------------------------------------------------------
(* The callbacks as functions of their arguments and the module state.     *)

\* (mutant) the warning test reads the lower control limit
status_of_lcl(latest_value, limits) ==
    IF latest_value > limits.usl THEN <<"DANGER", "red", TRUE>>
    ELSE IF latest_value > limits.lcl THEN <<"WARNING", "orange", TRUE>>
    ELSE <<"SAFE", "green", TRUE>>

\* (mutant) the comparisons are not strict
status_of_ge(latest_value, limits) ==
    IF latest_value >= limits.usl THEN <<"DANGER", "red", TRUE>>
    ELSE IF latest_value >= limits.ucl THEN <<"WARNING", "orange", TRUE>>
    ELSE <<"SAFE", "green", TRUE>>

\* (mutant) the warning test comes first
status_of_ucl_first(latest_value, limits) ==
    IF latest_value > limits.ucl THEN <<"WARNING", "orange", TRUE>>
    ELSE IF latest_value > limits.usl THEN <<"DANGER", "red", TRUE>>
    ELSE <<"SAFE", "green", TRUE>>

\* the if / elif / else chain of run_ai_model on latest_value
status_of(latest_value, limits) ==
    IF latest_value > limits.usl THEN <<"DANGER", "red", TRUE>>
    ELSE IF latest_value > limits.ucl THEN <<"WARNING", "orange", TRUE>>
    ELSE <<"SAFE", "green", TRUE>>

\* (mutant) test3's run_ai_model guarded by its counter, as test2's is
run_ai_model_test3_if_n(n, d, limits) ==
    IF truthy(n) /\ ~empty(d)
    THEN [op |-> "run_ai_model", clicked |-> truthy(n), raised |-> FALSE,
          out |-> IF d[Len(d)] > limits.usl THEN <<"DANGER", "red", TRUE>>
                  ELSE IF d[Len(d)] > limits.ucl THEN <<"WARNING", "orange", TRUE>>
                  ELSE <<"SAFE", "green", TRUE>>]
    ELSE [op |-> "run_ai_model", clicked |-> truthy(n), raised |-> FALSE,
          out |-> <<"", "green", FALSE>>]

\* test3.run_ai_model(n)
run_ai_model_test3(n, d, limits) ==
    IF ~empty(d)
    THEN Returned("run_ai_model", n, status_of(iloc_last(d), limits))
    ELSE Returned("run_ai_model", n, <<"", "green", FALSE>>)

\* test2.run_ai_model(n)
run_ai_model_test2(n, d, limits) ==
    IF truthy(n)
    THEN IF empty(d)
         THEN Raised("run_ai_model", n, "IndexError")
         ELSE Returned("run_ai_model", n, status_of(iloc_last(d), limits))
    ELSE Returned("run_ai_model", n, <<"", "green", FALSE>>)

\* test3.update_current_so2(n)
current_so2(n, d) ==
    IF ~empty(d)
    THEN Returned("update_current_so2", n, <<fmt_ppm(iloc_last(d))>>)
    ELSE Returned("update_current_so2", n, <<"N/A">>)

\* the figure of update_live_chart: the trace and the four horizontal lines
figure(d, limits) ==
    <<d, limits.usl, limits.lsl, limits.ucl, limits.lcl>>

\* (mutant) ucl and usl are stored under each other's key
stored_limits_swapped(n, lsl, lcl, ucl, usl, limits) ==
    IF truthy(n)
    THEN [lsl |-> lsl, lcl |-> lcl, ucl |-> usl, usl |-> ucl]
    ELSE limits

\* what update_settings leaves in sensor_limits["SO2"]
stored_limits(n, lsl, lcl, ucl, usl, limits) ==
    IF truthy(n)
    THEN [lsl |-> lsl, lcl |-> lcl, ucl |-> ucl, usl |-> usl]
    ELSE limits

\* what update_settings returns
settings_echo(n, lsl, lcl, ucl, usl) == <<lsl, lcl, ucl, usl>>

\* (mutant) the alerts are counted against ucl
alerts_of_ucl(d, limits) == mask_count(d, limits.ucl)

\* alerts of export_pdf
alerts_of(d, limits) == mask_count(d, limits.usl)

\* test2.export_pdf(n): the numbers written into the report
export_report(n, d, limits) ==
    IF truthy(n)
    THEN Returned("export_pdf", n,
                  <<[lsl |-> limits.lsl, lcl |-> limits.lcl,
                     ucl |-> limits.ucl, usl |-> limits.usl,
                     mean |-> describe(d).mean, min |-> describe(d).min,
                     max |-> describe(d).max,
                     alerts |-> alerts_of(d, limits)]>>)
    ELSE Returned("export_pdf", n, <<"None">>)

\* df after the append of update_live_chart
appended(d, new_so2) == iloc_tail(concat(d, new_so2), N)

----------------------------------------------------------------------------
(* Callbacks dispatched one at a time (each runs to completion).           *)

Sequential == ~threaded /\ UNCHANGED <<app, logging, ai, ex, threaded, lc, so>>

\* update_settings is called with n None when the settings tab is rendered
\* (its State values are then the ones sensor_settings_tab rendered, which
\* another browser session may have replaced in sensor_limits since) and
\* with n >= 1, and whatever the user left in the fields, on a click.
update_settings ==
    /\ Sequential
    /\ \E n \in ClickArgs, lsl \in LslInputs, lcl \in LclInputs,
          ucl \in UclInputs, usl \in UslInputs :
          /\ sensor_limits' = stored_limits(n, lsl, lcl, ucl, usl, sensor_limits)
          /\ ret' = Returned("update_settings", n, settings_echo(n, lsl, lcl, ucl, usl))
    /\ UNCHANGED <<df, hist>>

run_ai_model_2 ==
    /\ Sequential
    /\ app = "test2"
    /\ \E n \in ClickArgs : ret' = run_ai_model_test2(n, df, sensor_limits)
    /\ UNCHANGED <<df, sensor_limits, hist>>

run_ai_model_3 ==
    /\ Sequential
    /\ app = "test3"
    /\ \E n \in TickArgs : ret' = run_ai_model_test3(n, df, sensor_limits)
    /\ UNCHANGED <<df, sensor_limits, hist>>

update_live_chart_2 ==
    /\ Sequential
    /\ app = "test2"
    /\ \E n \in ClickArgs :
          ret' = Returned("update_live_chart", n, figure(df, sensor_limits))
    /\ UNCHANGED <<df, sensor_limits, hist>>

update_live_chart_3 ==
    /\ Sequential
    /\ app = "test3"
    /\ logging => Len(hist) < N + MaxAppends
    /\ \E n \in TickArgs, r \in NewNoise :
          LET new_so2 == Base + r IN
          /\ df' = appended(df, new_so2)
          /\ hist' = IF logging THEN Append(hist, new_so2) ELSE hist
          /\ ret' = Returned("update_live_chart", n, figure(df', sensor_limits))
    /\ UNCHANGED sensor_limits

update_current_so2 ==
    /\ Sequential
    /\ app = "test3"
    /\ \E n \in TickArgs : ret' = current_so2(n, df)
    /\ UNCHANGED <<df, sensor_limits, hist>>

export_pdf ==
    /\ Sequential
    /\ app = "test2"
    /\ \E n \in ClickArgs : ret' = export_report(n, df, sensor_limits)
    /\ UNCHANGED <<df, sensor_limits, hist>>

----------------------------------------------------------------------------
(* Callbacks run in threads of the web server: a call of run_ai_model and  *)
(* a call of export_pdf advance one read of the module state at a time,    *)
(* while update_settings and update_live_chart each change the module      *)
(* state by one store (of sensor_limits["SO2"], of df).                    *)

Threaded == threaded /\ UNCHANGED <<app, logging, hist, ret, threaded, lc, so>>

Running(t) == t.pc \notin {"idle", "done"}

\* a finished run_ai_model call: what it returned, the reading it used, the
\* limits stored when it began and when it ended, and how many stores of
\* sensor_limits["SO2"] happened in between (counted up to two)
ai_done(raised, out) ==
    [pc |-> "done", raised |-> raised, out |-> out, latest |-> ai.latest,
     before |-> ai.before, stores |-> ai.stores, after |-> sensor_limits]

t_update_settings ==
    /\ Threaded
    /\ \E n \in ClickArgs, new \in RacingSets :
          /\ sensor_limits' =
                stored_limits(n, new.lsl, new.lcl, new.ucl, new.usl, sensor_limits)
          /\ ai' = IF Running(ai) /\ truthy(n)
                   THEN [ai EXCEPT !.stores = IF @ < 2 THEN @ + 1 ELSE @]
                   ELSE ai
    /\ UNCHANGED <<df, ex>>

t_update_live_chart ==
    /\ Threaded
    /\ app = "test3"
    /\ \E r \in NewNoise : df' = appended(df, Base + r)
    /\ UNCHANGED <<sensor_limits, ai, ex>>

\* run_ai_model is entered; test2 tests its argument n at once
ai_begin ==
    /\ Threaded
    /\ ~Running(ai)
    /\ \E n \in ClickArgs :
          LET call == [pc |-> "empty", latest |-> 0, before |-> sensor_limits,
                       stores |-> 0]
          IN  ai' = IF app = "test3" THEN call
                    ELSE IF truthy(n) THEN [call EXCEPT !.pc = "latest"]
                    ELSE [pc |-> "done", raised |-> FALSE,
                          out |-> <<"", "green", FALSE>>, latest |-> 0,
                          before |-> sensor_limits, stores |-> 0,
                          after |-> sensor_limits]
    /\ UNCHANGED <<df, sensor_limits, ex>>

\* test3: if not df.empty
ai_empty ==
    /\ Threaded
    /\ ai.pc = "empty"
    /\ ai' = IF ~empty(df) THEN [ai EXCEPT !.pc = "latest"]
             ELSE ai_done(FALSE, <<"", "green", FALSE>>)
    /\ UNCHANGED <<df, sensor_limits, ex>>

\* latest_value = df["SO2"].iloc[-1]
ai_latest ==
    /\ Threaded
    /\ ai.pc = "latest"
    /\ ai' = IF empty(df) THEN ai_done(TRUE, <<"IndexError">>)
             ELSE [ai EXCEPT !.pc = "usl", !.latest = iloc_last(df)]
    /\ UNCHANGED <<df, sensor_limits, ex>>

\* if latest_value > sensor_limits["SO2"]["usl"]
ai_usl ==
    /\ Threaded
    /\ ai.pc = "usl"
    /\ ai' = IF ai.latest > sensor_limits.usl
             THEN ai_done(FALSE, <<"DANGER", "red", TRUE>>)
             ELSE [ai EXCEPT !.pc = "ucl"]
    /\ UNCHANGED <<df, sensor_limits, ex>>

\* elif latest_value > sensor_limits["SO2"]["ucl"] ... else
ai_ucl ==
    /\ Threaded
    /\ ai.pc = "ucl"
    /\ ai' = IF ai.latest > sensor_limits.ucl
             THEN ai_done(FALSE, <<"WARNING", "orange", TRUE>>)
             ELSE ai_done(FALSE, <<"SAFE", "green", TRUE>>)
    /\ UNCHANGED <<df, sensor_limits, ex>>

\* export_pdf is entered and tests its argument n
ex_begin ==
    /\ Threaded
    /\ app = "test2"
    /\ ~Running(ex)
    /\ \E n \in ClickArgs :
          ex' = IF truthy(n) THEN [pc |-> "alerts"]
                ELSE [pc |-> "done", out |-> <<"None">>]
    /\ UNCHANGED <<df, sensor_limits, ai>>

\* alerts = len(df[df["SO2"] > sensor_limits["SO2"]["usl"]])
ex_alerts ==
    /\ Threaded
    /\ ex.pc = "alerts"
    /\ ex' = [pc |-> "lsl", alerts |-> alerts_of(df, sensor_limits),
              counted_with |-> sensor_limits.usl, shown |-> <<>>]
    /\ UNCHANGED <<df, sensor_limits, ai>>

\* the four {sensor_limits['SO2'][...]} of the report's f-string, in order
ex_format ==
    /\ Threaded
    /\ ex.pc \in {"lsl", "lcl", "ucl", "usl"}
    /\ LET shown == Append(ex.shown, sensor_limits[ex.pc]) IN
       ex' = IF ex.pc = "usl"
             THEN [pc |-> "done",
                   out |-> <<[lsl |-> shown[1], lcl |-> shown[2],
                              ucl |-> shown[3], usl |-> shown[4],
                              mean |-> describe(df).mean,
                              min |-> describe(df).min,
                              max |-> describe(df).max,
                              alerts |-> ex.alerts]>>]
             ELSE [ex EXCEPT !.shown = shown,
                             !.pc = CASE ex.pc = "lsl" -> "lcl"
                                      [] ex.pc = "lcl" -> "ucl"
                                      [] ex.pc = "ucl" -> "usl"]
    /\ UNCHANGED <<df, sensor_limits, ai>>

----------------------------------------------------------------------------
(* The callbacks the interval of test3 fires, as threads: update_live_chart *)
(* reads the global df, builds the longer table and its last 100 rows as   *)
(* temporaries, and rebinds df by one store; update_current_so2 reads df   *)
(* once for the emptiness test and once for the last row.                  *)

Ticking ==
    /\ threaded
    /\ app = "test3"
    /\ UNCHANGED <<app, logging, hist, ret, threaded, sensor_limits, ex, ai>>

\* (mutant) the concat result is bound to df before it is cut to its tail
df_during_append_bound(d, tmp) == tmp

\* the global df between pd.concat(...) and the store of .iloc[-100:]: the
\* table it was, the concat result being a temporary of the expression
df_during_append(d, tmp) == d

\* new_so2 = 500 + random.randint(-100, 150); new_row
lc_begin ==
    /\ Ticking
    /\ ~Running(lc)
    /\ \E r \in NewNoise : lc' = [pc |-> "concat", new_so2 |-> Base + r]
    /\ UNCHANGED <<df, so>>

\* pd.concat([df, new_row], ignore_index=True)
lc_concat ==
    /\ Ticking
    /\ lc.pc = "concat"
    /\ LET tmp == concat(df, lc.new_so2) IN
       /\ lc' = [pc |-> "store", new_so2 |-> lc.new_so2, before |-> df,
                 tmp |-> tmp]
       /\ df' = df_during_append(df, tmp)
    /\ UNCHANGED so

\* df = (...).iloc[-100:]
lc_store ==
    /\ Ticking
    /\ lc.pc = "store"
    /\ df' = iloc_tail(lc.tmp, N)
    /\ lc' = [pc |-> "figure", new_so2 |-> lc.new_so2, before |-> lc.before]
    /\ UNCHANGED so

\* limits = sensor_limits["SO2"]; fig = ...; return fig
lc_figure ==
    /\ Ticking
    /\ lc.pc = "figure"
    /\ lc' = [pc |-> "done", out |-> figure(df, sensor_limits)]
    /\ UNCHANGED <<df, so>>

\* update_current_so2 is entered
so_begin ==
    /\ Ticking
    /\ ~Running(so)
    /\ so' = [pc |-> "empty"]
    /\ UNCHANGED <<df, lc>>

\* if not df.empty
so_empty ==
    /\ Ticking
    /\ so.pc = "empty"
    /\ so' = IF ~empty(df) THEN [pc |-> "latest"]
             ELSE [pc |-> "done", raised |-> FALSE, out |-> <<"N/A">>]
    /\ UNCHANGED <<df, lc>>

\* latest = df["SO2"].iloc[-1]; return f"{latest:.1f} ppm"
so_latest ==
    /\ Ticking
    /\ so.pc = "latest"
    /\ so' = IF empty(df)
             THEN [pc |-> "done", raised |-> TRUE, out |-> <<"IndexError">>]
             ELSE [pc |-> "done", raised |-> FALSE,
                   out |-> <<fmt_ppm(iloc_last(df))>>]
    /\ UNCHANGED <<df, lc>>

----------------------------------------------------------------------------
(* Specifications.                                                         *)

InitCommon ==
    /\ sensor_limits = DefaultLimits
    /\ ret = NoReturn
    /\ ai = Idle
    /\ ex = Idle
    /\ lc = Idle
    /\ so = Idle

\* the two programs as they start
Init ==
    /\ InitCommon
    /\ app \in {"test2", "test3"}
    /\ df \in (IF app = "test2" THEN {seed_test2} ELSE seeds_test3)
    /\ logging = FALSE
    /\ hist = <<>>
    /\ threaded = FALSE

Next ==
    \/ update_settings
    \/ run_ai_model_2
    \/ run_ai_model_3
    \/ update_live_chart_2
    \/ update_live_chart_3
    \/ update_current_so2
    \/ export_pdf

Spec == Init /\ [][Next]_vars

\* A logged run of test3's interval callbacks: the three callbacks the
\* dcc.Interval fires, with every reading the table receives recorded.
InitFifo ==
    /\ InitCommon
    /\ app = "test3"
    /\ df \in seeds_test3
    /\ logging = TRUE
    /\ hist = df
    /\ threaded = FALSE

NextFifo ==
    \/ run_ai_model_3
    \/ update_live_chart_3
    \/ update_current_so2

SpecFifo == InitFifo /\ [][NextFifo]_vars

\* The callbacks as functions of the module state: the table is any table of
\* at most N rows (the empty one included) and the limits are any set the
\* form can store.
AnyValues == {750, 850}
AnyTables == UNION {[1 .. k -> AnyValues] : k \in 0 .. N}

InitAny ==
    /\ ret = NoReturn
    /\ ai = Idle
    /\ ex = Idle
    /\ lc = Idle
    /\ so = Idle
    /\ app \in {"test2", "test3"}
    /\ df \in AnyTables \cup {seed_test2} \cup seeds_test3
    /\ sensor_limits \in ThresholdSets
    /\ logging = FALSE
    /\ hist = <<>>
    /\ threaded = FALSE

NextAny ==
    \/ run_ai_model_2
    \/ run_ai_model_3
    \/ update_live_chart_2
    \/ update_live_chart_3
    \/ update_current_so2
    \/ export_pdf

SpecAny == InitAny /\ [][NextAny]_vars

\* The two programs with a table created empty at startup (and test2 with
\* its seed as well): every callback, dispatched one at a time.
InitLife ==
    /\ InitCommon
    /\ app \in {"test2", "test3"}
    /\ df \in (IF app = "test2" THEN {<<>>, seed_test2} ELSE {<<>>})
    /\ logging = FALSE
    /\ hist = <<>>
    /\ threaded = FALSE

SpecLife == InitLife /\ [][Next]_vars

\* the two programs served by a threaded web server
InitThreads ==
    /\ InitCommon
    /\ app \in {"test2", "test3"}
    /\ df \in (IF app = "test2" THEN {seed_test2} ELSE seeds_test3)
    /\ logging = FALSE
    /\ hist = <<>>
    /\ threaded = TRUE

NextThreads ==
    \/ t_update_settings
    \/ t_update_live_chart
    \/ ai_begin
    \/ ai_empty
    \/ ai_latest
    \/ ai_usl
    \/ ai_ucl
    \/ ex_begin
    \/ ex_alerts
    \/ ex_format

SpecThreads == InitThreads /\ [][NextThreads]_vars

\* test3 served by a threaded web server: the three callbacks of the interval
InitTick ==
    /\ InitCommon
    /\ app = "test3"
    /\ df \in seeds_test3
    /\ logging = FALSE
    /\ hist = <<>>
    /\ threaded = TRUE

NextTick ==
    \/ lc_begin
    \/ lc_concat
    \/ lc_store
    \/ lc_figure
    \/ ai_begin
    \/ ai_empty
    \/ ai_latest
    \/ ai_usl
    \/ ai_ucl
    \/ so_begin
    \/ so_empty
    \/ so_latest

SpecTick == InitTick /\ [][NextTick]_vars

----------------------------------------------------------------------------
(* Properties.                                                             *)

Min(a, b) == IF a < b THEN a ELSE b

\* the last k elements of s, by index arithmetic from the end
LastOf(s, k) ==
    LET m == Min(k, Len(s)) IN SubSeq(s, Len(s) - m + 1, Len(s))

\* the readings appended by update_live_chart (hist without the N seed rows)
Appends == SubSeq(hist, N + 1, Len(hist))

\* the classification rule of the specification, on a value and a threshold set
RefLabel(v, limits) ==
    CASE v > limits.usl -> "DANGER"
      [] v <= limits.usl /\ v > limits.ucl -> "WARNING"
      [] OTHER -> "SAFE"

Rank(label) ==
    CASE label = "SAFE" -> 0 [] label = "WARNING" -> 1 [] label = "DANGER" -> 2

\* a run_ai_model call that returned a label (not the empty status)
Classified == ret.op = "run_ai_model" /\ ~ret.raised /\ ret.out[1] # ""

LimitsTuple(limits) == <<limits.lsl, limits.lcl, limits.ucl, limits.usl>>

\* C1: the table never has more than N rows and always holds the last N of
\* the readings it received, in order; once more than N readings have been
\* appended these are the last N appended readings.
FifoEviction ==
    logging =>
        /\ Len(df) <= N
        /\ df = LastOf(hist, N)
        /\ Len(Appends) > N => df = LastOf(Appends, N)

FifoWitness ==
    /\ logging
    /\ Len(Appends) > N
    /\ ret.op = "update_live_chart"
    /\ df = LastOf(Appends, N)

\* C2 (as stated): whenever the table is populated, run_ai_model returns the
\* label of the reference rule applied to the latest reading.
LabelIsReference ==
    (ret.op = "run_ai_model" /\ ~empty(df)) =>
        (~ret.raised /\ ret.out[1] = RefLabel(iloc_last(df), sensor_limits))

\* C2 (amended): test3's run_ai_model, and test2's when its click count is
\* truthy, return the label of the reference rule applied to the latest
\* reading, whatever lsl and lcl are; test2's run_ai_model with a click count
\* of None or 0 returns the empty status.
LabelIsReferenceWhenRun ==
    (ret.op = "run_ai_model" /\ ~empty(df)) =>
        /\ ~ret.raised
        /\ IF app = "test2" /\ ~ret.clicked
           THEN ret.out = <<"", "green", FALSE>>
           ELSE /\ ret.out[1] = RefLabel(iloc_last(df), sensor_limits)
                /\ \A l1 \in LslInputs, l2 \in LclInputs :
                      status_of(iloc_last(df),
                                [sensor_limits EXCEPT !.lsl = l1, !.lcl = l2])[1]
                          = ret.out[1]

LabelWitness ==
    /\ Classified
    /\ ret.out[1] = "WARNING"
    /\ sensor_limits.lsl > iloc_last(df)
    /\ app = "test2"

\* C3: the stored threshold set is ordered, lsl <= lcl <= ucl <= usl.
ThresholdsOrdered ==
    /\ sensor_limits.lsl <= sensor_limits.lcl
    /\ sensor_limits.lcl <= sensor_limits.ucl
    /\ sensor_limits.ucl <= sensor_limits.usl

\* C4 (as stated): every update_settings call returns the set that is stored
\* after it.
EchoIsStored ==
    ret.op = "update_settings" => ret.out = LimitsTuple(sensor_limits)

\* C4 (amended): an update_settings call with a truthy click count returns
\* the set that is stored after it, and a call that repeats the previous one
\* leaves the stored set as it is; a call with a click count of None or 0
\* stores nothing and leaves sensor_limits unchanged.
RoundTrip ==
    [][ret'.op = "update_settings" =>
          /\ IF ret'.clicked
             THEN ret'.out = LimitsTuple(sensor_limits')
             ELSE sensor_limits' = sensor_limits
          /\ ret' = ret => sensor_limits' = sensor_limits]_vars

RoundTripWitness ==
    /\ ret.op = "update_settings"
    /\ ret.clicked
    /\ sensor_limits # DefaultLimits
    /\ ret.out = LimitsTuple(sensor_limits)

BoundaryIsWarning ==
    Classified =>
        /\ iloc_last(df) = sensor_limits.usl => ret.out[1] = "WARNING"
        /\ iloc_last(df) = sensor_limits.usl + 1 => ret.out[1] = "DANGER"

\* C6 (amended): a latest reading equal to the stored usl is never classified
\* DANGER: it is WARNING when the stored ucl is below usl and SAFE when ucl
\* is usl or more; a latest reading a unit above usl is classified DANGER.
BoundaryIsStrict ==
    Classified =>
        /\ iloc_last(df) = sensor_limits.usl =>
              ret.out[1] = (IF sensor_limits.ucl < sensor_limits.usl
                            THEN "WARNING" ELSE "SAFE")
        /\ iloc_last(df) = sensor_limits.usl + 1 => ret.out[1] = "DANGER"

BoundaryWitnessAt ==
    /\ Classified
    /\ iloc_last(df) = sensor_limits.usl
    /\ sensor_limits.ucl < sensor_limits.usl
    /\ ret.out[1] = "WARNING"

\* readings around every threshold the form can store, and every reading of
\* the tables
SampleReadings ==
    {t + e : t \in UclInputs \cup UslInputs, e \in {0 - 1, 0, 1}}
        \cup {Base + r : r \in SeedNoise \cup NewNoise}
        \cup {df[i] : i \in DOMAIN df}

\* C7: under the stored threshold set the label is monotonic in the reading:
\* a larger reading never gets a lower label (SAFE < WARNING < DANGER), and
\* the label run_ai_model returned is the one of that order.
Monotonic ==
    /\ \A v1, v2 \in SampleReadings :
          v1 < v2 => Rank(status_of(v1, sensor_limits)[1])
                        <= Rank(status_of(v2, sensor_limits)[1])
    /\ Classified =>
          \A v \in SampleReadings :
             /\ v < iloc_last(df) =>
                   Rank(status_of(v, sensor_limits)[1]) <= Rank(ret.out[1])
             /\ v > iloc_last(df) =>
                   Rank(status_of(v, sensor_limits)[1]) >= Rank(ret.out[1])

MonotonicWitness ==
    /\ Classified
    /\ sensor_limits.ucl > sensor_limits.usl
    /\ iloc_last(df) > sensor_limits.usl
    /\ iloc_last(df) < sensor_limits.ucl
    /\ ret.out[1] = "DANGER"

\* C9 (as stated): a run_ai_model call that follows a run_ai_model call
\* returns what that one returned, and leaves df and sensor_limits unchanged.
ClassifyPure ==
    [][(ret.op = "run_ai_model" /\ ret'.op = "run_ai_model") =>
          /\ ret'.out = ret.out
          /\ df' = df
          /\ sensor_limits' = sensor_limits]_vars

\* C9 (amended): a run_ai_model call leaves df and sensor_limits unchanged;
\* when it follows a run_ai_model call it returns what that one returned,
\* in test3 whatever the tick counts and in test2 when the two click counts
\* are both truthy or both falsy.
ClassifyPureGivenClick ==
    [][ret'.op = "run_ai_model" =>
          /\ df' = df
          /\ sensor_limits' = sensor_limits
          /\ (ret.op = "run_ai_model"
                /\ (app = "test3" \/ ret'.clicked = ret.clicked))
                => ret'.out = ret.out]_vars

ClassifyPureWitness ==
    /\ app = "test3"
    /\ Classified
    /\ ~ret.clicked
    /\ ret.out[1] = "DANGER"

\* the number of rows of d above bound, as the size of a set of row numbers
Exceedances(d, bound) == Cardinality({i \in DOMAIN d : d[i] > bound})

\* the table after appending the readings of s in order to d at capacity k
RECURSIVE AppendAll(_, _, _)
AppendAll(d, s, k) ==
    IF s = <<>> THEN d
    ELSE AppendAll(iloc_tail(concat(d, Head(s)), k), Tail(s), k)

\* C10: the alerts of a report are the number of rows of the current table
\* whose reading is above the stored usl.  With the limits 300, 400, 700, 800
\* and the table 750, 850 (what appending 650, 750, 850 at capacity 2
\* leaves) the alerts are 1 and the label is DANGER.
ReportExceedances ==
    /\ (ret.op = "export_pdf" /\ ret.clicked) =>
          ret.out[1].alerts = Exceedances(df, sensor_limits.usl)
    /\ AppendAll(<<>>, <<650, 750, 850>>, 2) = <<750, 850>>
    /\ (df = <<750, 850>> /\ sensor_limits = DefaultLimits) =>
          /\ (ret.op = "export_pdf" /\ ret.clicked) => ret.out[1].alerts = 1
          /\ (ret.op = "run_ai_model" /\ ret.clicked) => ret.out[1] = "DANGER"

ReportWitness ==
    /\ df = <<750, 850>>
    /\ sensor_limits = DefaultLimits
    /\ ret.op = "export_pdf"
    /\ ret.clicked
    /\ ret.out[1].alerts = 1

\* C8: a run_ai_model call during which sensor_limits["SO2"] was stored at
\* most once returns the label of the reference rule under the complete set
\* stored when it began or under the complete set stored when it ended.
AtomicThresholds ==
    (ai.pc = "done" /\ ~ai.raised /\ ai.out[1] # "" /\ ai.stores <= 1) =>
        ai.out[1] \in {RefLabel(ai.latest, ai.before),
                        RefLabel(ai.latest, ai.after)}

\* C11: a populated table is never left empty by any callback, and the
\* append of update_live_chart leaves the table populated: the first one
\* turns the empty table into a table of one row, and no append leaves fewer
\* rows than it found.
NeverEmptyAgain ==
    [][/\ ~empty(df) => ~empty(df')
       /\ (app = "test3" /\ ret'.op = "update_live_chart") =>
             /\ ~empty(df')
             /\ empty(df) => Len(df') = 1
             /\ Len(df') >= Len(df)]_vars

NeverEmptyWitness ==
    /\ app = "test3"
    /\ ret.op = "update_live_chart"
    /\ Len(df) = 1

\* the complete windows of the append in progress: the table before it and
\* the table after it (the current table when no append is between its read
\* and the end of the call)
WindowsOfAppend ==
    IF lc.pc \in {"store", "figure"}
    THEN {lc.before, LastOf(lc.before \o <<lc.new_so2>>, N)}
    ELSE {df}

\* a step in which run_ai_model or update_current_so2 reads df
ReaderStep ==
    \/ ai.pc \in {"empty", "latest"} /\ ai' # ai
    \/ so.pc \in {"empty", "latest"} /\ so' # so

\* C12: the table a reader reads, while update_live_chart appends in another
\* thread, has at most N rows and is the complete table before the append
\* or the complete table after it, and the last reading the reader takes
\* from it is the last reading of one of the two.
NoTornWindow ==
    [][ReaderStep =>
          /\ Len(df) <= N
          /\ df \in WindowsOfAppend
          /\ (ai.pc = "latest" /\ ai'.pc = "usl") =>
                ai'.latest \in {w[Len(w)] : w \in WindowsOfAppend}
          /\ (so.pc = "latest" /\ so'.pc = "done") =>
                so'.out \in {<<fmt_ppm(w[Len(w)])>> : w \in WindowsOfAppend}]_vars

NoTornWitness ==
    /\ lc.pc = "figure"
    /\ iloc_last(lc.before) # lc.new_so2
    /\ ai.pc = "usl"
    /\ ai.latest = lc.new_so2
    /\ so.pc = "done"
    /\ so.out = <<fmt_ppm(iloc_last(lc.before))>>

====
